---- MODULE Spec2Model ----
(***************************************************************************)
(* State-machine model of the two Streamlit pages of the repository:       *)
(*   frontend.py      the preference form, the POST to the recommender     *)
(*                    and the rendering of the ranked response;            *)
(*   pages/About.py   get_countries_data, the country-name -> ISO alpha-3  *)
(*                    resolution behind the choropleth map.                *)
(* Streamlit runs one page script per render, so a behaviour is one run of *)
(* one page (variable page).                                               *)
(*                                                                         *)
(* Python strings are sequences of one-character strings, so that          *)
(* str.title(), str.lower() and float(str) are computed.  Floats that are  *)
(* scores are integers in thousandths (0.8 is 800).                        *)
(***************************************************************************)
EXTENDS Integers, Sequences, FiniteSets, TLC

VARIABLES
    page,               \* "form" (frontend.py) or "about" (pages/About.py)
    pc,                 \* position of the running page script
    request,            \* frontend.py: the submission in flight (the inputs it was
                        \* built from and the JSON body of the POST), or NoRequest
    results,            \* frontend.py: response.json(), NoResults before it
    i,                  \* frontend.py: enumerate(results, 1) index
    ui,                 \* elements rendered so far, in order
    raised,             \* exception raised inside the try block (class and place)
    uncaught,           \* class of the exception no except clause caught
    df,                 \* About.py: df['country'], the dataset's name column
    row,                \* About.py: position of the for loop in df['country']
    countries_with_iso, \* About.py: the list the loop appends to
    fuzzy_calls,        \* About.py: arguments search_fuzzy was called with
    fuzzy_failed,       \* About.py: rows at which search_fuzzy failed
    directory           \* About.py: the frame get_countries_data returns

vars == <<page, pc, request, results, i, ui, raised, uncaught,
          df, row, countries_with_iso, fuzzy_calls, fuzzy_failed, directory>>

formVars == <<request, results, i, raised, uncaught>>
aboutVars == <<df, row, countries_with_iso, fuzzy_calls, fuzzy_failed, directory>>

---------------------------------------------------------------------------
(* Bounds of the model *)

MaxBudget == 2
MaxResults == 2
MaxRows == 3

---------------------------------------------------------------------------
(* Python and JSON values *)

JNull == [t |-> "null"]
JNum(n) == [t |-> "num", n |-> n]
JStr(s) == [t |-> "str", s |-> s]
JList(xs) == [t |-> "list", items |-> xs]
JObj(f) == [t |-> "obj", o |-> f]

NoException == [cls |-> "none", entry |-> 0, key |-> "", arg |-> ""]

LowerLetters == <<"a","b","c","d","e","f","g","h","i","j","k","l","m",
                  "n","o","p","q","r","s","t","u","v","w","x","y","z">>
UpperLetters == <<"A","B","C","D","E","F","G","H","I","J","K","L","M",
                  "N","O","P","Q","R","S","T","U","V","W","X","Y","Z">>
DigitChars == <<"0","1","2","3","4","5","6","7","8","9">>

IsLower(c) == \E k \in 1..26 : LowerLetters[k] = c
IsUpper(c) == \E k \in 1..26 : UpperLetters[k] = c
IsCased(c) == IsLower(c) \/ IsUpper(c)
Upper(c) == IF IsLower(c) THEN UpperLetters[CHOOSE k \in 1..26 : LowerLetters[k] = c] ELSE c
Lower(c) == IF IsUpper(c) THEN LowerLetters[CHOOSE k \in 1..26 : UpperLetters[k] = c] ELSE c

\* str.lower()
LowerStr(s) == [k \in 1..Len(s) |-> Lower(s[k])]

\* str.title(): a cased character is upper-cased when the character before it
\* is not cased (or there is none), lower-cased otherwise.
Title(s) ==
    [k \in 1..Len(s) |->
        IF IsCased(s[k])
        THEN IF k > 1 /\ IsCased(s[k-1]) THEN Lower(s[k]) ELSE Upper(s[k])
        ELSE s[k]]

RECURSIVE IntToChars(_)
\* str(n) of a natural number
IntToChars(n) ==
    IF n < 10 THEN <<DigitChars[n + 1]>>
    ELSE IntToChars(n \div 10) \o <<DigitChars[(n % 10) + 1]>>

IsDigit(c) == \E d \in 1..10 : DigitChars[d] = c
DigitVal(c) == (CHOOSE d \in 1..10 : DigitChars[d] = c) - 1

RECURSIVE DigitsVal(_)
DigitsVal(s) ==
    IF s = <<>> THEN 0
    ELSE DigitsVal(SubSeq(s, 1, Len(s) - 1)) * 10 + DigitVal(s[Len(s)])

RECURSIVE Pow10(_)
Pow10(k) == IF k = 0 THEN 1 ELSE 10 * Pow10(k - 1)

\* The strings float() accepts, as far as the model goes: digits with at most
\* one "." and at most three digits after it.
IsNumericStr(s) ==
    LET dots == {k \in 1..Len(s) : s[k] = "."}
    IN  /\ \A k \in 1..Len(s) : IsDigit(s[k]) \/ s[k] = "."
        /\ \E k \in 1..Len(s) : IsDigit(s[k])
        /\ Cardinality(dots) <= 1
        /\ \A k \in dots : Len(s) - k <= 3

ParseFloat(s) ==
    LET dots == {k \in 1..Len(s) : s[k] = "."}
        p == IF dots = {} THEN Len(s) + 1 ELSE CHOOSE k \in dots : TRUE
        whole == SubSeq(s, 1, p - 1)
        frac == SubSeq(s, p + 1, Len(s))
    IN  DigitsVal(whole) * 1000 + DigitsVal(frac) * Pow10(3 - Len(frac))

\* float(v): the value in thousandths, or the exception float() raises.
PyFloat(v) ==
    CASE v.t = "num" -> [ok |-> TRUE, f |-> v.n]
      [] v.t = "str" -> IF IsNumericStr(v.s)
                        THEN [ok |-> TRUE, f |-> ParseFloat(v.s)]
                        ELSE [ok |-> FALSE, exc |-> "ValueError"]
      [] OTHER -> [ok |-> FALSE, exc |-> "TypeError"]

\* Python truthiness of a value
Truthy(v) ==
    CASE v.t = "null" -> FALSE
      [] v.t = "num" -> v.n # 0
      [] v.t = "str" -> v.s # <<>>
      [] v.t = "list" -> v.items # <<>>
      [] v.t = "obj" -> DOMAIN v.o # {}

\* f"{x:.0f}" of x = f * 100 with f in thousandths: round to nearest, ties to even
FormatPercent(f) ==
    LET q == f \div 10
        r == f % 10
    IN  IF r < 5 THEN q
        ELSE IF r > 5 THEN q + 1
        ELSE IF q % 2 = 0 THEN q ELSE q + 1

---------------------------------------------------------------------------
(* frontend.py: the form *)

NoRequest == [sent |-> FALSE]
NoResults == [t |-> "none"]

continent_keys == <<"Any", "Africa", "Asia", "Europe", "North America", "Oceania", "South America">>

continent_options ==
    [k \in {continent_keys[n] : n \in 1..Len(continent_keys)} |->
        CASE k = "Any" -> JNull
          [] k = "Africa" -> JStr(<<"A","F">>)
          [] k = "Asia" -> JStr(<<"A","S">>)
          [] k = "Europe" -> JStr(<<"E","U">>)
          [] k = "North America" -> JStr(<<"N","A">>)
          [] k = "Oceania" -> JStr(<<"O","C">>)
          [] k = "South America" -> JStr(<<"S","A">>)]

temperature_options == << <<"C","o","l","d">>, <<"M","i","l","d">>, <<"H","o","t">> >>

SliderMin == 0
SliderMax == 10
SliderDefault == 5

SliderKeys == {"climate_importance", "cost_importance", "health_importance",
               "safety_importance", "internet_importance"}

\* What the widgets can hold when the button is clicked.  The sample moves at
\* most one widget off its default; a slider goes to either end of its range.
DefaultWidgets ==
    [continent_key |-> continent_keys[1],
     temperature |-> temperature_options[2],
     sliders |-> [k \in SliderKeys |-> SliderDefault]]

WidgetStates ==
    {DefaultWidgets}
    \cup {[DefaultWidgets EXCEPT !.continent_key = continent_keys[n]] : n \in 1..Len(continent_keys)}
    \cup {[DefaultWidgets EXCEPT !.temperature = temperature_options[n]] : n \in 1..Len(temperature_options)}
    \cup {[DefaultWidgets EXCEPT !.sliders[k] = v] : k \in SliderKeys, v \in {SliderMin, SliderMax}}

\* st.number_input(min_value=0, value=0, step=100)
BudgetInputs == 0..MaxBudget

\* Mutant: the normalization of 0 is left out
NormalizeBudgetKept(b) == JNum(b)

\* max_monthly_budget = None if max_monthly_budget == 0 else max_monthly_budget
NormalizeBudget(b) == IF b = 0 THEN JNull ELSE JNum(b)

Payload(w, budget) ==
    [climate_preference |-> JStr(LowerStr(w.temperature)),
     climate_importance |-> w.sliders["climate_importance"],
     cost_of_living_importance |-> w.sliders["cost_importance"],
     healthcare_importance |-> w.sliders["health_importance"],
     safety_importance |-> w.sliders["safety_importance"],
     internet_speed_importance |-> w.sliders["internet_importance"],
     continent_preference |-> continent_options[w.continent_key],
     max_monthly_budget |-> NormalizeBudget(budget)]

RequestTimeout == 30

---------------------------------------------------------------------------
(* frontend.py: exceptions and the except chain *)

\* The classes an exception is an instance of.  requests.exceptions:
\* ConnectTimeout(ConnectionError, Timeout), ReadTimeout(Timeout),
\* JSONDecodeError(InvalidJSONError, ...), all under RequestException.
Bases(cls) ==
    CASE cls = "ConnectionError" -> {"ConnectionError", "RequestException"}
      [] cls = "ConnectTimeout" -> {"ConnectTimeout", "ConnectionError", "Timeout", "RequestException"}
      [] cls = "ReadTimeout" -> {"ReadTimeout", "Timeout", "RequestException"}
      [] cls = "TooManyRedirects" -> {"TooManyRedirects", "RequestException"}
      [] cls = "HTTPError" -> {"HTTPError", "RequestException"}
      [] cls = "IndexError" -> {"IndexError", "LookupError"}
      [] cls = "KeyError" -> {"KeyError", "LookupError"}
      [] cls = "JSONDecodeError" -> {"JSONDecodeError", "InvalidJSONError", "RequestException", "ValueError"}
      [] OTHER -> {cls}

\* What requests.post(..., timeout=30) can raise: before the request is
\* delivered, and while waiting for the response
ConnectExceptions == {"ConnectionError", "ConnectTimeout"}
ReadExceptions == {"ReadTimeout", "ConnectionError", "TooManyRedirects"}

\* The timeouts among them: the connect timeout and the read timeout
TimeoutExceptions == {"ConnectTimeout", "ReadTimeout"}

\* response.raise_for_status() raises HTTPError for these
StatusCodes == {200, 404, 500}
IsErrorStatus(code) == 400 <= code /\ code < 600

\* The except clauses, in source order
ExceptChain == <<"ConnectionError", "Timeout", "HTTPError", "RequestException">>

\* Index of the first except clause that matches, 0 when none does
CaughtBy(cls) ==
    LET hits == {k \in 1..Len(ExceptChain) : ExceptChain[k] \in Bases(cls)}
    IN  IF hits = {} THEN 0 ELSE CHOOSE k \in hits : \A m \in hits : k <= m

ConnectionErrorMsg == "Connection error: Unable to connect to the recommendation service. Please check your internet connection."
TimeoutErrorMsg == "Timeout error: The request to the recommendation service took too long. Please try again later."
HTTPErrorMsg == "HTTP error: Received a {status_code} status code from the recommendation service."
NetworkErrorMsg == "Network error: An unexpected error occurred. ({e})"
UnexpectedMsg == "Received an unexpected response from the server."
NoMatchMsg == "No countries found matching your criteria. Try adjusting your preferences or budget."

\* The st.error an except clause renders; arg is what the f-string interpolates
HandlerError(k, exc) ==
    CASE k = 1 -> [w |-> "error", msg |-> ConnectionErrorMsg, arg |-> ""]
      [] k = 2 -> [w |-> "error", msg |-> TimeoutErrorMsg, arg |-> ""]
      [] k = 3 -> [w |-> "error", msg |-> HTTPErrorMsg, arg |-> exc.arg]
      [] k = 4 -> [w |-> "error", msg |-> NetworkErrorMsg, arg |-> exc.cls]

Exc(cls, entry, key, arg) == [cls |-> cls, entry |-> entry, key |-> key, arg |-> arg]

---------------------------------------------------------------------------
(* frontend.py: rendering one entry of the response list *)

feature_keys == <<"average_monthly_cost_$", "average_yearly_temperature",
                  "internet_speed_mbps", "safety_index", "Healthcare Index">>

feature_display_map ==
    [k \in {feature_keys[n] : n \in 1..Len(feature_keys)} |->
        CASE k = "average_monthly_cost_$" -> "Cost of Living"
          [] k = "average_yearly_temperature" -> "Temperature"
          [] k = "internet_speed_mbps" -> "Internet Speed"
          [] k = "safety_index" -> "Safety"
          [] k = "Healthcare Index" -> "Healthcare"]

\* f"{feature_key}_match_score"
MatchScoreKey(feature_key) == feature_key \o "_match_score"

ScoreKeys == <<"similarity_score">> \o [n \in 1..Len(feature_keys) |-> MatchScoreKey(feature_keys[n])]

NA == <<"N","/","A">>

\* dict.get(key, default)
Get(o, key, default) == IF key \in DOMAIN o THEN o[key] ELSE default

\* Mutant: the 'N/A' check is left out
NAKept(v) == v

\* if isinstance(score, str) and score == 'N/A': score = 0
NAtoZero(v) == IF v.t = "str" /\ v.s = NA THEN JNum(0) ELSE v

\* country_data.get(key, 0), then the 'N/A' check
Score(o, key) == NAtoZero(Get(o, key, JNum(0)))

\* (float(score) or 0) * 100, formatted with :.0f
ScorePercent(score) ==
    LET f == PyFloat(score).f
    IN  FormatPercent(IF f = 0 THEN 0 ELSE f)

\* The argument of st.progress: float(score or 0)
ProgressValue(score) == IF Truthy(score) THEN PyFloat(score).f ELSE 0

\* st.progress accepts a float in [0.0, 1.0] and raises StreamlitAPIException otherwise
ProgressOk(f) == 0 <= f /\ f <= 1000

\* Mutant: the top three are expanded, as the source comment has it
ExpandedTop3(idx) == idx <= 3

\* expanded=(i <= 1)
Expanded(idx) == idx <= 1

\* f'Unknown Country {i}'
UnknownCountry(idx) ==
    <<"U","n","k","n","o","w","n"," ","C","o","u","n","t","r","y"," ">> \o IntToChars(idx)

RECURSIVE RenderFeatures(_, _, _)
\* for idx, (feature_key, label) in enumerate(feature_items): the texts and the
\* bars rendered from feature n on, and the exception that ended the loop
RenderFeatures(entry, o, n) ==
    IF n > Len(feature_keys) THEN [texts |-> <<>>, bars |-> <<>>, exc |-> NoException]
    ELSE
      LET key == MatchScoreKey(feature_keys[n])
          feature_score == Score(o, key)
          fl == PyFloat(feature_score)
      IN  IF ~fl.ok
          THEN [texts |-> <<>>, bars |-> <<>>, exc |-> Exc(fl.exc, entry, key, "")]
          ELSE
            LET text == [label |-> feature_display_map[feature_keys[n]],
                         key |-> key,
                         percent |-> ScorePercent(feature_score)]
                bar == ProgressValue(feature_score)
            IN  IF ~ProgressOk(bar)
                THEN [texts |-> <<text>>, bars |-> <<>>,
                      exc |-> Exc("StreamlitAPIException", entry, key, "")]
                ELSE
                  LET rest == RenderFeatures(entry, o, n + 1)
                  IN  [texts |-> <<text>> \o rest.texts,
                       bars |-> <<bar>> \o rest.bars,
                       exc |-> rest.exc]

\* One iteration of "for i, country_data in enumerate(results, 1)": the elements
\* it renders and the exception it raises, if any
RenderEntry(idx, country_data) ==
    IF country_data.t # "obj"
    THEN [elems |-> <<>>, exc |-> Exc("AttributeError", idx, "country", "")]
    ELSE
      LET o == country_data.o
          name == Get(o, "country", JStr(UnknownCountry(idx)))
      IN  IF name.t # "str"
          THEN [elems |-> <<>>, exc |-> Exc("AttributeError", idx, "country", "")]
          ELSE
            LET overall_score == Score(o, "similarity_score")
                fl == PyFloat(overall_score)
            IN  IF ~fl.ok
                THEN [elems |-> <<>>, exc |-> Exc(fl.exc, idx, "similarity_score", "")]
                ELSE
                  LET head == [w |-> "expander",
                               index |-> idx,
                               country |-> Title(name.s),
                               percent |-> ScorePercent(overall_score),
                               expanded |-> Expanded(idx),
                               progress |-> <<>>,
                               texts |-> <<>>,
                               bars |-> <<>>]
                      bar == ProgressValue(overall_score)
                  IN  IF ~ProgressOk(bar)
                      THEN [elems |-> <<head>>,
                            exc |-> Exc("StreamlitAPIException", idx, "similarity_score", "")]
                      ELSE
                        LET body == RenderFeatures(idx, o, 1)
                        IN  [elems |-> <<[head EXCEPT !.progress = <<bar>>,
                                                      !.texts = body.texts,
                                                      !.bars = body.bars]>>,
                             exc |-> body.exc]

\* Mutant: the elif for the empty list is left out
BranchNoEmpty(r) == IF r.t = "list" /\ Truthy(r) THEN "render" ELSE "unexpected"

\* The branch the handler takes on response.json()
Branch(r) ==
    IF r.t = "list" /\ Truthy(r) THEN "render"
    ELSE IF r.t = "list" /\ ~Truthy(r) THEN "empty"
    ELSE "unexpected"

---------------------------------------------------------------------------
(* frontend.py: the responses the recommender is drawn from *)

Missing == [t |-> "missing"]

Portugal == <<"p","o","r","t","u","g","a","l">>

\* One score per key of ScoreKeys (Missing: the key is absent)
BaseScores == [n \in 1..Len(ScoreKeys) |-> IF n = 1 THEN JNum(920) ELSE JNum(800)]

AbsentScores == {Missing, JStr(NA)}
OddScores == {JNull, JNum(0), JNum(1500), JNum(926), JStr(<<"a","b","c">>), JStr(<<"0",".","5">>)}

ScoreVectors ==
    {BaseScores}
    \cup {[BaseScores EXCEPT ![n] = v] : n \in 1..Len(ScoreKeys), v \in AbsentScores}
    \cup {[BaseScores EXCEPT ![n] = v] : n \in 1..2, v \in OddScores}
    \cup {[n \in 1..Len(ScoreKeys) |-> v] : v \in AbsentScores \cup {JNull}}

MkObj(country, sc) ==
    LET present == {n \in 1..Len(ScoreKeys) : sc[n] # Missing}
        keys == {ScoreKeys[n] : n \in present} \cup (IF country = Missing THEN {} ELSE {"country"})
    IN  JObj([k \in keys |->
                IF k = "country" THEN country
                ELSE sc[CHOOSE n \in present : ScoreKeys[n] = k]])

Elements ==
    {MkObj(JStr(Portugal), sc) : sc \in ScoreVectors}
    \cup {MkObj(c, BaseScores) : c \in {Missing, JNull, JStr(<<"h","o","n","g"," ","k","o","n","g">>)}}
    \cup {JNum(1), JStr(<<"x">>), JNull, JList(<<>>)}

NonLists ==
    {JNull, JNum(7), JStr(<<"o","o","p","s">>), JObj(<<>>),
     JObj([detail |-> JStr(<<"e","r","r">>)])}

\* The lists of n elements
Lists(n) == [1..n -> Elements]

---------------------------------------------------------------------------
(* frontend.py: the handler of the button *)

Expanders == SelectSeq(ui, LAMBDA e : e.w = "expander")
Errors == SelectSeq(ui, LAMBDA e : e.w = "error")
Infos == SelectSeq(ui, LAMBDA e : e.w = "info")

\* An exception raised inside the try block meets the except chain
\* (rendered: what the page shows when it is raised)
Handle(exc, rendered) ==
    LET k == CaughtBy(exc.cls)
    IN  /\ raised' = exc
        /\ IF k = 0
           THEN /\ uncaught' = exc.cls
                /\ pc' = "crashed"
                /\ ui' = rendered
           ELSE /\ uncaught' = uncaught
                /\ pc' = "done"
                /\ ui' = Append(rendered, HandlerError(k, exc))

\* if st.button(...): payload = {...}; requests.post(url, json=payload, timeout=30)
Submit ==
    /\ page = "form" /\ pc = "form"
    /\ \E w \in WidgetStates, b \in BudgetInputs :
          request' = [sent |-> TRUE,
                      inputs |-> [widgets |-> w, max_monthly_budget |-> b],
                      json |-> Payload(w, b),
                      timeout |-> RequestTimeout]
    /\ pc' = "post"
    /\ UNCHANGED <<page, results, i, ui, raised, uncaught>>
    /\ UNCHANGED aboutVars

\* requests.post fails before the recommender has the request: the connection
\* is refused, or is not made within the timeout
ConnectFails ==
    /\ page = "form" /\ pc = "post"
    /\ \E cls \in ConnectExceptions : Handle(Exc(cls, 0, "", ""), ui)
    /\ request' = NoRequest
    /\ UNCHANGED <<page, results, i>>
    /\ UNCHANGED aboutVars

\* The recommender has the request; requests.post waits for the response
Deliver ==
    /\ page = "form" /\ pc = "post"
    /\ request' = NoRequest
    /\ pc' = "wait"
    /\ UNCHANGED <<page, results, i, ui, raised, uncaught>>
    /\ UNCHANGED aboutVars

\* requests.post fails while waiting: no response within the timeout, or a
\* redirect loop
ReadFails ==
    /\ page = "form" /\ pc = "wait"
    /\ \E cls \in ReadExceptions : Handle(Exc(cls, 0, "", ""), ui)
    /\ UNCHANGED <<page, request, results, i>>
    /\ UNCHANGED aboutVars

\* response.raise_for_status() raises for a 4xx or 5xx status
PostBadStatus ==
    /\ page = "form" /\ pc = "wait"
    /\ \E code \in StatusCodes :
          /\ IsErrorStatus(code)
          /\ Handle(Exc("HTTPError", 0, "", ToString(code)), ui)
    /\ UNCHANGED <<page, request, results, i>>
    /\ UNCHANGED aboutVars

\* response.json() of a body that is not JSON raises: requests' JSONDecodeError,
\* or with an older requests the json module's own error, a plain ValueError
ResponseNotJSON ==
    /\ page = "form" /\ pc = "wait"
    /\ \E cls \in {"JSONDecodeError", "ValueError"} : Handle(Exc(cls, 0, "", ""), ui)
    /\ UNCHANGED <<page, request, results, i>>
    /\ UNCHANGED aboutVars

\* results = response.json()
ResponseJSON ==
    /\ page = "form" /\ pc = "wait"
    /\ \E code \in StatusCodes : ~IsErrorStatus(code)
    /\ \/ \E r \in NonLists : results' = r
       \/ \E n \in 0..MaxResults : \E xs \in Lists(n) : results' = JList(xs)
    /\ pc' = "dispatch"
    /\ UNCHANGED <<page, request, i, ui, raised, uncaught>>
    /\ UNCHANGED aboutVars

\* st.subheader(...) and the if / elif / else on results
Dispatch ==
    /\ page = "form" /\ pc = "dispatch"
    /\ LET head == Append(ui, [w |-> "subheader"])
           b == Branch(results)
       IN  CASE b = "render" ->
                  /\ ui' = head
                  /\ i' = 1
                  /\ pc' = "loop"
             [] b = "empty" ->
                  /\ ui' = Append(head, [w |-> "info", msg |-> NoMatchMsg])
                  /\ i' = i
                  /\ pc' = "done"
             [] b = "unexpected" ->
                  /\ ui' = head \o <<[w |-> "error", msg |-> UnexpectedMsg, arg |-> ""],
                                     [w |-> "json", value |-> results]>>
                  /\ i' = i
                  /\ pc' = "done"
    /\ UNCHANGED <<page, request, results, raised, uncaught>>
    /\ UNCHANGED aboutVars

\* One iteration of the for loop over results
RenderNext ==
    /\ page = "form" /\ pc = "loop"
    /\ LET r == RenderEntry(i, results.items[i])
       IN  IF r.exc = NoException
           THEN /\ ui' = ui \o r.elems
                /\ i' = i + 1
                /\ pc' = IF i = Len(results.items) THEN "done" ELSE "loop"
                /\ UNCHANGED <<raised, uncaught>>
           ELSE /\ Handle(r.exc, ui \o r.elems)
                /\ i' = i
    /\ UNCHANGED <<page, request, results>>
    /\ UNCHANGED aboutVars

---------------------------------------------------------------------------
(* pages/About.py: get_countries_data *)

\* name_to_iso, as its (key, value) pairs
name_to_iso_items ==
    { <<<<"u","n","i","t","e","d"," ","s","t","a","t","e","s">>, "USA">>,
      <<<<"u","n","i","t","e","d"," ","k","i","n","g","d","o","m">>, "GBR">>,
      <<<<"r","u","s","s","i","a">>, "RUS">>,
      <<<<"s","o","u","t","h"," ","k","o","r","e","a">>, "KOR">>,
      <<<<"c","o","n","g","o">>, "COD">>,
      <<<<"i","v","o","r","y"," ","c","o","a","s","t">>, "CIV">>,
      <<<<"m","y","a","n","m","a","r">>, "MMR">>,
      <<<<"t","a","i","w","a","n">>, "TWN">>,
      <<<<"b","o","s","n","i","a"," ","&"," ","h","e","r","z","e","g","o","v","i","n","a">>, "BIH">>,
      <<<<"n","o","r","t","h"," ","m","a","c","e","d","o","n","i","a">>, "MKD">>,
      <<<<"t","r","i","n","i","d","a","d"," ","&"," ","t","o","b","a","g","o">>, "TTO">>,
      <<<<"h","o","n","g"," ","k","o","n","g">>, "HKG">>,
      <<<<"t","u","r","k","e","y">>, "TUR">> }

name_to_iso_keys == {kv[1] : kv \in name_to_iso_items}
name_to_iso == [k \in name_to_iso_keys |-> (CHOOSE kv \in name_to_iso_items : kv[1] = k)[2]]

UnknownIso == "Unknown"

\* A cell of the name column: a string, or NaN where the CSV cell is empty
NaN == [t |-> "nan"]

\* Mutant: the table is searched for the title-cased name
InOverrideTitled(name) == name.t = "str" /\ Title(name.s) \in name_to_iso_keys

\* country_name in name_to_iso
InOverride(name) == name.t = "str" /\ name.s \in name_to_iso_keys

\* except (LookupError, IndexError)
InnerCatches(cls) == Bases(cls) \cap {"LookupError", "IndexError"} # {}

\* The names and codes the datasets of the model are built from
NameCells ==
    {JStr(<<"h","o","n","g"," ","k","o","n","g">>),
     JStr(<<"H","o","n","g"," ","K","o","n","g">>),
     JStr(<<"t","u","r","k","e","y">>),
     JStr(<<"n","a","r","n","i","a">>),
     NaN}

FuzzyCodes == {"HKG", "CHN"}

\* The name columns of n rows
Datasets(n) == [1..n -> NameCells]

\* What pycountry.countries.search_fuzzy(name)[0] can do: return a country,
\* raise LookupError, return no candidate (so [0] raises IndexError), or fail
\* otherwise.  A NaN has no string methods: the lookup raises at once.
FuzzyOutcomes(name) ==
    IF name.t # "str"
    THEN {[kind |-> "raise", cls |-> "AttributeError", alpha_3 |-> ""]}
    ELSE {[kind |-> "found", cls |-> "", alpha_3 |-> c] : c \in FuzzyCodes}
         \cup {[kind |-> "raise", cls |-> e, alpha_3 |-> ""] :
                   e \in {"LookupError", "IndexError", "AttributeError"}}

Entry(name, iso, has_data) ==
    [country |-> Title(name.s), iso_alpha_3 |-> iso, has_data |-> has_data]

RECURSIVE Pick(_, _)
\* The subsequence of es at the positions keep, in order
Pick(es, keep) ==
    IF es = <<>> THEN <<>>
    ELSE Pick(SubSeq(es, 1, Len(es) - 1), keep)
         \o (IF Len(es) \in keep THEN <<es[Len(es)]>> ELSE <<>>)

\* countries_df.drop_duplicates(subset=['country']): the first row of each name
DropDuplicates(es) ==
    Pick(es, {k \in 1..Len(es) : \A m \in 1..(k - 1) : es[m].country # es[k].country})

\* countries_df[countries_df['iso_alpha_3'] != "Unknown"]
KeepResolved(es) ==
    Pick(es, {k \in 1..Len(es) : es[k].iso_alpha_3 # UnknownIso})

\* Mutant: the filter runs before the deduplication
PostProcessFilterFirst(es) == DropDuplicates(KeepResolved(es))

\* The frame the normal path returns: deduplicate, then filter
PostProcess(es) == KeepResolved(DropDuplicates(es))

LoadErrorMsg == "Error loading country data: {e}"
NoMapMsg == "Could not generate map - no country data available"

\* except Exception as e: st.error(...); return the empty frame
Fallback(exc) ==
    /\ raised' = exc
    /\ ui' = Append(ui, [w |-> "error", msg |-> LoadErrorMsg, arg |-> exc.cls])
    /\ directory' = <<>>
    /\ pc' = "map"

\* df = pd.read_csv(...); df.rename(...)
LoadDataset ==
    /\ page = "about" /\ pc = "load"
    /\ \/ /\ \E n \in 0..MaxRows : \E d \in Datasets(n) : df' = d
          /\ pc' = "resolve"
          /\ UNCHANGED <<ui, raised, directory>>
       \/ /\ \E cls \in {"FileNotFoundError", "EmptyDataError"} : Fallback(Exc(cls, 0, "", ""))
          /\ df' = df
    /\ UNCHANGED <<page, row, countries_with_iso, fuzzy_calls, fuzzy_failed>>
    /\ UNCHANGED <<request, results, i, uncaught>>

\* One iteration of "for country_name in df['country']"
ResolveNext ==
    /\ page = "about" /\ pc = "resolve" /\ row <= Len(df)
    /\ LET country_name == df[row]
       IN  IF InOverride(country_name)
           THEN /\ countries_with_iso' =
                      Append(countries_with_iso,
                             Entry(country_name, name_to_iso[country_name.s], TRUE))
                /\ row' = row + 1
                /\ UNCHANGED <<pc, ui, raised, directory, fuzzy_calls, fuzzy_failed>>
           ELSE \E out \in FuzzyOutcomes(country_name) :
                /\ fuzzy_calls' = fuzzy_calls \cup {country_name}
                /\ CASE out.kind = "found" ->
                          /\ countries_with_iso' =
                                Append(countries_with_iso, Entry(country_name, out.alpha_3, TRUE))
                          /\ row' = row + 1
                          /\ UNCHANGED <<pc, ui, raised, directory, fuzzy_failed>>
                     [] out.kind = "raise" /\ InnerCatches(out.cls) ->
                          /\ countries_with_iso' =
                                Append(countries_with_iso, Entry(country_name, UnknownIso, FALSE))
                          /\ row' = row + 1
                          /\ fuzzy_failed' = fuzzy_failed \cup {row}
                          /\ UNCHANGED <<pc, ui, raised, directory>>
                     [] out.kind = "raise" /\ ~InnerCatches(out.cls) ->
                          /\ Fallback(Exc(out.cls, row, "", ""))
                          /\ fuzzy_failed' = fuzzy_failed \cup {row}
                          /\ UNCHANGED <<row, countries_with_iso>>
    /\ UNCHANGED <<page, df>>
    /\ UNCHANGED <<request, results, i, uncaught>>

\* countries_df = pd.DataFrame(countries_with_iso); drop_duplicates; the filter.
\* A frame built from an empty list has no 'country' column: KeyError.
Finish ==
    /\ page = "about" /\ pc = "resolve" /\ row > Len(df)
    /\ IF countries_with_iso = <<>>
       THEN Fallback(Exc("KeyError", 0, "", ""))
       ELSE /\ directory' = PostProcess(countries_with_iso)
            /\ pc' = "map"
            /\ UNCHANGED <<ui, raised>>
    /\ UNCHANGED <<page, df, row, countries_with_iso, fuzzy_calls, fuzzy_failed>>
    /\ UNCHANGED <<request, results, i, uncaught>>

\* if not countries_df.empty: px.choropleth(countries_df, ...) else st.error(...)
RenderMap ==
    /\ page = "about" /\ pc = "map"
    /\ ui' = Append(ui, IF directory # <<>>
                        THEN [w |-> "map", frame |-> directory]
                        ELSE [w |-> "error", msg |-> NoMapMsg, arg |-> ""])
    /\ pc' = "done"
    /\ UNCHANGED <<page, raised, df, row, countries_with_iso, fuzzy_calls, fuzzy_failed, directory>>
    /\ UNCHANGED <<request, results, i, uncaught>>

---------------------------------------------------------------------------
(* The specification *)

Init ==
    /\ page \in {"form", "about"}
    /\ pc = IF page = "form" THEN "form" ELSE "load"
    /\ request = NoRequest
    /\ results = NoResults
    /\ i = 0
    /\ ui = <<>>
    /\ raised = NoException
    /\ uncaught = "none"
    /\ df = <<>>
    /\ row = 1
    /\ countries_with_iso = <<>>
    /\ fuzzy_calls = {}
    /\ fuzzy_failed = {}
    /\ directory = <<>>

Next ==
    \/ Submit
    \/ ConnectFails
    \/ Deliver
    \/ ReadFails
    \/ PostBadStatus
    \/ ResponseNotJSON
    \/ ResponseJSON
    \/ Dispatch
    \/ RenderNext
    \/ LoadDataset
    \/ ResolveNext
    \/ Finish
    \/ RenderMap

Spec == Init /\ [][Next]_vars

---------------------------------------------------------------------------
(* Properties of frontend.py *)

FormEnded == page = "form" /\ pc \in {"done", "crashed"}
Answered == FormEnded /\ results # NoResults

IsAbsent(o, key) == key \notin DOMAIN o \/ o[key] = JStr(NA)

\* An entry as the response contract describes it: an object, its country a
\* string, each score a number in [0, 1] or "N/A" (or the key missing)
ValidEntry(e) ==
    /\ e.t = "obj"
    /\ "country" \in DOMAIN e.o => e.o["country"].t = "str"
    /\ \A n \in 1..Len(ScoreKeys) :
          \/ IsAbsent(e.o, ScoreKeys[n])
          \/ /\ e.o[ScoreKeys[n]].t = "num"
             /\ 0 <= e.o[ScoreKeys[n]].n /\ e.o[ScoreKeys[n]].n <= 1000

\* Not a well-formed list of result objects
Malformed(r) == r.t # "list" \/ \E k \in 1..Len(r.items) : r.items[k].t # "obj"

\* The only message of the page that mentions the timeout
MentionsTimeout(msg) == msg = TimeoutErrorMsg

\* C1: a response that is not a well-formed list of result objects ends with
\* the generic error and a dump of the raw payload, no expander and no
\* uncaught exception.
C1_MalformedResponseReported ==
    (Answered /\ Malformed(results)) =>
        /\ uncaught = "none"
        /\ Len(Expanders) = 0
        /\ Len(Errors) = 1 /\ Errors[1].msg = UnexpectedMsg
        /\ \E k \in 1..Len(ui) : ui[k].w = "json" /\ ui[k].value = results

\* C2: a timeout of the call, connecting or reading, renders exactly one
\* error message, which mentions the timeout, and no expander.
C2_TimeoutReported ==
    (FormEnded /\ raised.cls \in TimeoutExceptions) =>
        /\ Len(Errors) = 1
        /\ MentionsTimeout(Errors[1].msg)
        /\ Len(Expanders) = 0

C4_EmptyListIsNoMatch ==
    (Answered /\ results = JList(<<>>)) =>
        /\ uncaught = "none"
        /\ Infos = <<[w |-> "info", msg |-> NoMatchMsg]>>
        /\ Len(Expanders) = 0
        /\ Len(Errors) = 0
        /\ \A k \in 1..Len(ui) : ui[k].w \in {"subheader", "info"}

C4_Witness == page = "form" /\ pc = "done" /\ results = JList(<<>>) /\ Len(Infos) = 1

\* C5: in the request sent, max_monthly_budget is null exactly when the budget
\* input is 0, and a positive budget input is sent unchanged.
C5_BudgetZeroIsAbsent ==
    (page = "form" /\ request.sent) =>
        LET b == request.inputs.max_monthly_budget
            sent == request.json.max_monthly_budget
        IN  /\ (sent = JNull) <=> (b = 0)
            /\ b > 0 => sent = JNum(b)

C5_Witness ==
    /\ page = "form" /\ pc = "post" /\ request.sent
    /\ request.inputs.max_monthly_budget = 0
    /\ request.json.max_monthly_budget = JNull

\* C6: a score that is "N/A" or whose key is missing is rendered as 0 percent
\* (the overall score in the expander's title, a factor's score in its text),
\* and rendering it raises nothing.
C6_AbsentScoreIsZero ==
    (page = "form" /\ results # NoResults /\ results.t = "list") =>
        /\ \A k \in 1..Len(Expanders) :
              LET o == results.items[Expanders[k].index].o
              IN  /\ IsAbsent(o, "similarity_score") => Expanders[k].percent = 0
                  /\ \A n \in 1..Len(Expanders[k].texts) :
                        IsAbsent(o, Expanders[k].texts[n].key) =>
                            Expanders[k].texts[n].percent = 0
        /\ (raised.entry > 0 /\ raised.key # "country") =>
              ~IsAbsent(results.items[raised.entry].o, raised.key)

C6_Witness ==
    /\ page = "form" /\ pc = "done" /\ results.t = "list"
    /\ \E k, m \in 1..Len(Expanders) :
          LET o == results.items[Expanders[k].index].o
              q == results.items[Expanders[m].index].o
          IN  /\ \A n \in 1..Len(ScoreKeys) : ScoreKeys[n] \in DOMAIN o /\ o[ScoreKeys[n]] = JStr(NA)
              /\ DOMAIN q = {"country"}
              /\ Expanders[k].percent = 0 /\ Expanders[m].percent = 0
              /\ Len(Expanders[k].texts) = Len(feature_keys)
              /\ Len(Expanders[m].texts) = Len(feature_keys)
              /\ \A n \in 1..Len(feature_keys) :
                    Expanders[k].texts[n].percent = 0 /\ Expanders[m].texts[n].percent = 0

\* C7: every score of a response is normalized to [0, 1] before its percentage
\* and its bar are displayed, and a non-numeric (null included) or missing
\* score counts as zero instead of failing the render.
C7_ScoresNormalized ==
    (Answered /\ results.t = "list"
              /\ \A k \in 1..Len(results.items) :
                    /\ results.items[k].t = "obj"
                    /\ "country" \in DOMAIN results.items[k].o =>
                          results.items[k].o["country"].t = "str") =>
        /\ uncaught = "none"
        /\ Len(Expanders) = Len(results.items)
        /\ \A k \in 1..Len(Expanders) :
              /\ 0 <= Expanders[k].percent /\ Expanders[k].percent <= 100
              /\ \A n \in 1..Len(Expanders[k].progress) : ProgressOk(Expanders[k].progress[n])
              /\ \A n \in 1..Len(Expanders[k].bars) : ProgressOk(Expanders[k].bars[n])
              /\ \A n \in 1..Len(Expanders[k].texts) :
                    0 <= Expanders[k].texts[n].percent /\ Expanders[k].texts[n].percent <= 100

---------------------------------------------------------------------------
(* Properties of pages/About.py *)

AboutEnded == page = "about" /\ pc \in {"map", "done"}

IsFirstOfName(k) == \A m \in 1..(k - 1) : countries_with_iso[m].country # countries_with_iso[k].country

\* The rows of countries_with_iso the post-processing is to keep
Kept == {k \in 1..Len(countries_with_iso) :
            IsFirstOfName(k) /\ countries_with_iso[k].iso_alpha_3 # UnknownIso}

\* C8: a dataset name that is a key of the override table resolves to the
\* table's value, and the fuzzy lookup is never called with it.
C8_OverrideBypassesFuzzy ==
    page = "about" =>
        /\ \A k \in 1..Len(countries_with_iso) :
              (df[k].t = "str" /\ df[k].s \in name_to_iso_keys) =>
                  /\ countries_with_iso[k].iso_alpha_3 = name_to_iso[df[k].s]
                  /\ countries_with_iso[k].has_data
        /\ \A n \in fuzzy_calls : ~(n.t = "str" /\ n.s \in name_to_iso_keys)

C8_Witness ==
    /\ page = "about"
    /\ \E k \in 1..Len(countries_with_iso) :
          /\ df[k] = JStr(<<"h","o","n","g"," ","k","o","n","g">>)
          /\ countries_with_iso[k].iso_alpha_3 = "HKG"
    /\ fuzzy_calls # {}

\* C9: the directory returned has at most one entry per display name and no
\* entry with the sentinel code; when the post-processing produced it, it is
\* the first occurrence of each display name, in dataset order, without the
\* entries whose code is the sentinel.
C9_DirectoryIsFirstResolved ==
    AboutEnded =>
        /\ \A j, m \in 1..Len(directory) : directory[j].country = directory[m].country => j = m
        /\ \A j \in 1..Len(directory) : directory[j].iso_alpha_3 # UnknownIso
        /\ raised = NoException =>
              /\ Len(directory) = Cardinality(Kept)
              /\ \A j \in 1..Len(directory) : \E k \in Kept : directory[j] = countries_with_iso[k]
              /\ \A j, m \in 1..Len(directory) :
                    j < m => \E k, l \in Kept : /\ k < l
                                                /\ directory[j] = countries_with_iso[k]
                                                /\ directory[m] = countries_with_iso[l]

C9_Witness ==
    /\ page = "about" /\ pc = "done" /\ raised = NoException
    /\ Len(directory) = 1
    /\ \E k, m \in 1..Len(countries_with_iso) :
          /\ k < m
          /\ countries_with_iso[k].country = countries_with_iso[m].country
          /\ countries_with_iso[k].iso_alpha_3 = UnknownIso
          /\ countries_with_iso[m].iso_alpha_3 # UnknownIso
    /\ \E k \in 1..Len(countries_with_iso) : countries_with_iso[k] = directory[1]

\* C10: however the fuzzy lookup fails for a name, the entry is only marked
\* unresolved and the build goes on: every other name that resolves is in the
\* directory returned.
C10_FailureIsIsolated ==
    (AboutEnded /\ fuzzy_failed # {}) =>
        /\ \A k \in 1..Len(countries_with_iso) :
              (countries_with_iso[k].iso_alpha_3 # UnknownIso /\ IsFirstOfName(k)) =>
                  \E j \in 1..Len(directory) : directory[j] = countries_with_iso[k]
        /\ \A k \in fuzzy_failed :
              k <= Len(countries_with_iso) =>
                  /\ countries_with_iso[k].iso_alpha_3 = UnknownIso
                  /\ ~countries_with_iso[k].has_data

====
